---- MODULE Spec2Model ----
(***************************************************************************)
(* Event-sourced aggregate store of the URL shortener:                     *)
(*   - the stored-event list (raw builder and finalized form) and its      *)
(*     snapshots                          (src/src/cqrs/store.rs),         *)
(*   - the in-memory event store behind a reader/writer lock               *)
(*                                        (src/src/cqrs/mem_store.rs),     *)
(*   - the command/query service on top   (src/src/lib.rs).                *)
(*   - the slug generator and its encoding                                 *)
(*                              (src/src/gen.rs, src/src/base64.rs).       *)
(* The specifications share the definitions: SpecList (one list under the  *)
(* list operations), SpecStore (threads sharing one store), SpecService    *)
(* (the sequential service), SpecLoop (a create stepping through its       *)
(* generation loop), SpecGen (the generator alone) and SpecCopies (one     *)
(* caller and the store, with the list objects they own).                  *)
(***************************************************************************)
EXTENDS Integers, Sequences, FiniteSets, TLC

VARIABLES
    lst,    \* SpecList: the events of the list under construction (Vec<StoredEvent>)
    kind,   \* SpecList: "raw" (StoredEventRawList) or "fin" (StoredEventList)
    last,   \* the last operation completed: [op, k (index or bump), t (thread), id, url,
            \* head (the first event given to new or to a raw append, if any),
            \* data (the bytes the generator encoded),
            \* retry (a raw append that directly follows a failed one on the builder)]
    res,    \* the value the last operation returned
    evs,    \* MemEventStore.evs: the HashMap from identifier to StoredEventList
    readers, \* the threads holding the RwLock's read guard
    writer, \* the thread holding the RwLock's write guard, 0 when none
    pc,     \* SpecStore: where each thread is inside its store call
    arg,    \* SpecStore: the aggregate_id argument of each thread's call
    event_list, \* SpecStore: each thread's event_list (commit's parameter, remove's local)
    hist,   \* history: per identifier, the last completed write: [op, list], op "none", "commit" or "remove"
    removed, \* history: what HashMap::remove or HashMap::insert returned in the last
             \* operation (the code drops it)
    created, \* history, SpecService: per created slug, the ShortLink its create returned
    hits,   \* history, SpecService: per slug, the number of successful handle_redirect calls
    gen,    \* SpecLoop: the generator's answer for each bump during the running create
    bump,   \* SpecLoop: the local bump of handle_create_short_link
    lpc,    \* SpecLoop: "idle", or "probe" while the create is inside its loop
    cells,  \* SpecCopies: the Vec buffer behind each list object, <<>> when free
    stored, \* SpecCopies: the list object the map owns for each identifier
    mine    \* SpecCopies: the list object the caller owns, 0 when none

listVars == <<lst, kind>>
storeVars == <<evs, readers, writer, pc, arg, event_list, hist, removed, created, hits,
               gen, bump, lpc, cells, stored, mine>>
lockVars == <<readers, writer, pc, arg, event_list, hist, removed>>
loopVars == <<gen, bump, lpc>>
copyVars == <<cells, stored, mine>>
serviceVars == <<created, hits, gen, bump, lpc>>
vars == <<lst, kind, last, res, evs, readers, writer, pc, arg, event_list, hist, removed,
          created, hits, gen, bump, lpc, cells, stored, mine>>

(***************************************************************************)
(* Bounds of the model.                                                    *)
(***************************************************************************)
MaxLen == 3         \* longest list built in SpecList
MaxSeq == 2         \* longest event slice handed to new / append_all
MaxStoreLen == 2    \* longest list committed in SpecStore
MaxRedirects == 2   \* most redirects recorded per slug in SpecService
BumpMax == 3        \* the largest bump; u16::MAX in lib.rs, the loop is the same over a narrower bump

(***************************************************************************)
(* Values: slugs, urls, events, the Stats aggregate.                       *)
(***************************************************************************)
EmptySlug == ""
ListSlugs == {EmptySlug, "a", "b"}
ListUrls == {"u"}

\* lib.rs: enum ShortenerEvent { Create(Slug, Url), ShortLinkStatEvent(Slug, Redirect) }
CreateEvent(slug, url) == <<"Create", slug, url>>
StatEvent(slug) == <<"ShortLinkStatEvent", slug, "Redirect">>
EventsOver(slugs, urls) ==
    {CreateEvent(s, u) : s \in slugs, u \in urls} \cup {StatEvent(s) : s \in slugs}

ListEvents == EventsOver(ListSlugs, ListUrls)

Threads == {1, 2, 3}
StoreSlugs == {"a", "b"}

ServiceSlugs == {EmptySlug, "a", "b"}
\* test.rs: INVALID_URL, and two urls the parser accepts
InvalidUrls == {"http://[:::1]"}
ValidUrls == {"https://x", "https://y"}
ServiceUrls == InvalidUrls \cup ValidUrls

SeqsUpTo(S, n) == UNION {[1..m -> S] : m \in 0..n}
EventSeqs == SeqsUpTo(ListEvents, MaxSeq)

\* impl Default for Stats
DefaultStats == [link |-> [slug |-> EmptySlug, url |-> ""], redirects |-> 0]

\* Aggregate::aggregate_id for Stats
aggregate_id_of(agg) == agg.link.slug

\* a plausible slip: Create sets the slug and leaves the url as it was
apply_create_without_url(agg, event) ==
    IF event[1] = "Create"
    THEN [link |-> [slug |-> event[2], url |-> agg.link.url], redirects |-> 0]
    ELSE IF event[2] = aggregate_id_of(agg)
         THEN [agg EXCEPT !.redirects = @ + 1]
         ELSE agg

\* Aggregate::apply for Stats
apply(agg, event) ==
    IF event[1] = "Create"
    THEN [link |-> [slug |-> event[2], url |-> event[3]], redirects |-> 0]
    ELSE IF event[2] = aggregate_id_of(agg)
         THEN [agg EXCEPT !.redirects = @ + 1]
         ELSE agg

\* IsEmptyAggregateId::is_empty
is_empty_id(id) == id = EmptySlug

(***************************************************************************)
(* Results.  A result is [tag, val]; val's type depends on the operation,  *)
(* so formulas compare tags before values.                                 *)
(***************************************************************************)
Ok(v) == [tag |-> "Ok", val |-> v]
Err(e) == [tag |-> "Err", val |-> e]
Some(v) == [tag |-> "Some", val |-> v]
None == [tag |-> "None", val |-> "None"]
Unit == "()"

(***************************************************************************)
(* StoredEventRawList (store.rs).  A list is its Vec of StoredEvent.       *)
(***************************************************************************)
StoredEvent(id, index, event) == [aggregate_id |-> id, index |-> index, event |-> event]

\* a plausible slip: the index counts from one
append_unchecked_from_one(l, id, event) == Append(l, StoredEvent(id, Len(l) + 1, event))

\* StoredEventRawList::append_unchecked: the list after the push
append_unchecked(l, id, event) == Append(l, StoredEvent(id, Len(l), event))

\* a plausible slip: the identifier is recomputed from every appended event
initial_aggregate_id_recomputed(l, event) == aggregate_id_of(apply(DefaultStats, event))

\* a plausible slip: the identifier is read from the event's own slug field
initial_aggregate_id_from_field(l, event) ==
    IF l # <<>> THEN l[1].aggregate_id ELSE event[2]

\* StoredEventRawList::initial_aggregate_id
initial_aggregate_id(l, event) ==
    IF l # <<>>
    THEN l[1].aggregate_id
    ELSE aggregate_id_of(apply(DefaultStats, event))

\* StoredEventRawList::aggregate_id_unchecked (panics on the empty list)
aggregate_id_unchecked(l) == l[1].aggregate_id

\* StoredEventRawList::aggregate_id
raw_aggregate_id(l) == IF l = <<>> THEN None ELSE Some(aggregate_id_unchecked(l))

\* a plausible slip: the event is pushed before its identifier is examined
raw_append_push_first(l, event) ==
    LET id == initial_aggregate_id(l, event) IN
    [list |-> append_unchecked(l, id, event),
     res |-> IF is_empty_id(id) THEN Err("InvalidInitialEvent")
             ELSE Ok(StoredEvent(id, Len(l), event))]

\* StoredEventRawList::append: [list |-> the list afterwards, res |-> the result]
raw_append(l, event) ==
    LET id == initial_aggregate_id(l, event) IN
    IF is_empty_id(id)
    THEN [list |-> l, res |-> Err("InvalidInitialEvent")]
    ELSE [list |-> append_unchecked(l, id, event),
          res |-> Ok(StoredEvent(id, Len(l), event))]

\* the for loop of append_all: every event appended under one identifier
RECURSIVE append_each(_, _, _, _)
append_each(l, id, event_slice, i) ==
    IF i > Len(event_slice) THEN l
    ELSE append_each(append_unchecked(l, id, event_slice[i]), id, event_slice, i + 1)

\* StoredEventRawList::append_all (consumes the builder)
raw_append_all(l, event_slice) ==
    IF event_slice = <<>>
    THEN Err("EmptyEventList")
    ELSE LET id == initial_aggregate_id(l, event_slice[1]) IN
         IF is_empty_id(id)
         THEN Err("InvalidInitialEvent")
         ELSE Ok(append_each(l, id, event_slice, 1))

\* the fold of snapshot_unchecked
RECURSIVE fold_all(_, _, _)
fold_all(l, i, agg) ==
    IF i > Len(l) THEN agg ELSE fold_all(l, i + 1, apply(agg, l[i].event))

Snapshot(agg, index) == [aggregate |-> agg, index |-> index]

\* StoredEventRawList::snapshot_unchecked (callers guarantee a non-empty list)
snapshot_unchecked(l) == Snapshot(fold_all(l, 1, DefaultStats), Len(l) - 1)

\* StoredEventRawList::snapshot
raw_snapshot(l) == IF Len(l) < 1 THEN None ELSE Some(snapshot_unchecked(l))

\* a plausible slip: the loop stops before applying the target event
RECURSIVE fold_before(_, _, _, _)
fold_before(l, i, agg, index) ==
    IF i > Len(l) THEN agg
    ELSE IF l[i].index = index THEN agg
         ELSE fold_before(l, i + 1, apply(agg, l[i].event), index)

\* the loop of snapshot_at_unchecked: apply, then break on the target index
RECURSIVE fold_until(_, _, _, _)
fold_until(l, i, agg, index) ==
    IF i > Len(l) THEN agg
    ELSE LET next == apply(agg, l[i].event) IN
         IF l[i].index = index THEN next ELSE fold_until(l, i + 1, next, index)

\* StoredEventRawList::snapshot_at_unchecked
snapshot_at_unchecked(l, index) == Snapshot(fold_until(l, 1, DefaultStats, index), index)

\* StoredEventRawList::snapshot_at
raw_snapshot_at(l, index) ==
    IF Len(l) < 1 \/ (Len(l) - 1) < index
    THEN None
    ELSE Some(snapshot_at_unchecked(l, index))

\* the for loop of check_consistency, from the event at position i on
RECURSIVE check_each(_, _, _, _)
check_each(l, i, aggregate_id, event_index) ==
    IF i > Len(l) THEN Ok(Unit)
    ELSE IF l[i].aggregate_id = aggregate_id
         THEN Err("InconsistentEventAggregateId")
         ELSE IF l[i].index # event_index
              THEN Err("InconsistentEventIndex")
              ELSE check_each(l, i + 1, aggregate_id, event_index + 1)

\* StoredEventRawList::check_consistency
check_consistency(l) ==
    IF l = <<>> THEN Ok(Unit) ELSE check_each(l, 1, l[1].aggregate_id, 0)

\* a plausible slip: the builder is finalized without looking at its length
not_empty_unchecked(l) == Some(l)

\* StoredEventRawList::not_empty
not_empty(l) == IF l = <<>> THEN None ELSE Some(l)

(***************************************************************************)
(* StoredEventList (store.rs): a raw list behind the finalized type.       *)
(***************************************************************************)
\* StoredEventList::new
list_new(event_slice) == raw_append_all(<<>>, event_slice)

\* StoredEventList::aggregate_id
list_aggregate_id(l) == aggregate_id_unchecked(l)

\* StoredEventList::snapshot
list_snapshot(l) == snapshot_unchecked(l)

\* StoredEventList::snapshot_at
list_snapshot_at(l, index) == snapshot_at_unchecked(l, index)

\* StoredEventList::append: the list afterwards (the stored event is its last)
list_append(l, event) == append_unchecked(l, list_aggregate_id(l), event)

\* StoredEventList::append_all
list_append_all(l, event_slice) == append_each(l, list_aggregate_id(l), event_slice, 1)

(***************************************************************************)
(* SpecList: one list value under the public list operations.              *)
(***************************************************************************)
Op(name, k) ==
    [op |-> name, k |-> k, t |-> 0, id |-> EmptySlug, url |-> "", head |-> <<>>, data |-> <<>>,
     retry |-> FALSE]

Written(op, l) == [op |-> op, list |-> l]

\* MemEventStore::new: an empty map behind an unlocked RwLock
StoreIdle ==
    /\ evs = <<>>
    /\ readers = {}
    /\ writer = 0
    /\ pc = [t \in Threads |-> "idle"]
    /\ arg = [t \in Threads |-> EmptySlug]
    /\ event_list = [t \in Threads |-> <<>>]
    /\ hist = [id \in StoreSlugs |-> Written("none", <<>>)]
    /\ removed = None
    /\ created = <<>>
    /\ hits = [s \in ServiceSlugs |-> 0]
    /\ gen = [b \in 0..BumpMax |-> EmptySlug]
    /\ bump = 0
    /\ lpc = "idle"
    /\ cells = [a \in 1..(Cardinality(StoreSlugs) + 2) |-> <<>>]
    /\ stored = <<>>
    /\ mine = 0

\* an empty builder, an empty store, a service that has handled nothing
Init ==
    /\ lst = <<>>
    /\ kind = "raw"
    /\ last = Op("init", 0)
    /\ res = None
    /\ StoreIdle

\* StoredEventRawList::new
RawNew ==
    /\ lst' = <<>>
    /\ kind' = "raw"
    /\ last' = Op("raw_new", 0)
    /\ UNCHANGED storeVars
    /\ res' = None

RawAppend(event) ==
    /\ kind = "raw"
    /\ Len(lst) < MaxLen
    /\ lst' = raw_append(lst, event).list
    /\ res' = raw_append(lst, event).res
    /\ last' = [Op("raw_append", 0) EXCEPT
                   !.head = <<event>>,
                   !.retry = (last.op = "raw_append" /\ res.tag = "Err")]
    /\ UNCHANGED storeVars
    /\ UNCHANGED kind

\* append_all takes the builder by value: on failure the builder is gone
RawAppendAll(event_slice) ==
    /\ kind = "raw"
    /\ Len(lst) + Len(event_slice) <= MaxLen
    /\ LET r == raw_append_all(lst, event_slice) IN
       /\ res' = r
       /\ IF r.tag = "Ok"
          THEN lst' = r.val /\ kind' = "fin"
          ELSE lst' = <<>> /\ kind' = "raw"
    /\ last' = Op("raw_append_all", 0)
    /\ UNCHANGED storeVars

NotEmpty ==
    /\ kind = "raw"
    /\ res' = not_empty(lst)
    /\ kind' = IF not_empty(lst).tag = "Some" THEN "fin" ELSE "raw"
    /\ last' = Op("not_empty", 0)
    /\ UNCHANGED storeVars
    /\ UNCHANGED lst

ListNew(event_slice) ==
    /\ LET r == list_new(event_slice) IN
       /\ res' = r
       /\ IF r.tag = "Ok"
          THEN lst' = r.val /\ kind' = "fin"
          ELSE UNCHANGED <<lst, kind>>
    /\ last' = [Op("new", 0) EXCEPT !.head = IF event_slice = <<>> THEN <<>> ELSE <<event_slice[1]>>]
    /\ UNCHANGED storeVars

ListAppend(event) ==
    /\ kind = "fin"
    /\ Len(lst) < MaxLen
    /\ lst' = list_append(lst, event)
    /\ res' = Ok(lst'[Len(lst')])
    /\ last' = Op("append", 0)
    /\ UNCHANGED storeVars
    /\ UNCHANGED kind

ListAppendAll(event_slice) ==
    /\ kind = "fin"
    /\ Len(lst) + Len(event_slice) <= MaxLen
    /\ lst' = list_append_all(lst, event_slice)
    /\ res' = Ok(lst')
    /\ last' = Op("append_all", 0)
    /\ UNCHANGED storeVars
    /\ UNCHANGED kind

\* StoredEventList::raw
ListRaw ==
    /\ kind = "fin"
    /\ kind' = "raw"
    /\ res' = None
    /\ last' = Op("raw", 0)
    /\ UNCHANGED storeVars
    /\ UNCHANGED lst

\* snapshot(): Option on the builder, a plain Snapshot on the finalized list
TakeSnapshot ==
    /\ res' = IF kind = "raw" THEN raw_snapshot(lst) ELSE Some(list_snapshot(lst))
    /\ last' = Op("snapshot", 0)
    /\ UNCHANGED storeVars
    /\ UNCHANGED <<lst, kind>>

\* snapshot_at(index): Option on the builder, a plain Snapshot on the finalized list
TakeSnapshotAt(index) ==
    /\ res' = IF kind = "raw" THEN raw_snapshot_at(lst, index)
              ELSE Some(list_snapshot_at(lst, index))
    /\ last' = Op("snapshot_at", index)
    /\ UNCHANGED storeVars
    /\ UNCHANGED <<lst, kind>>

\* check_consistency(), on the builder or through the finalized list
CheckConsistency ==
    /\ res' = check_consistency(lst)
    /\ last' = Op("check_consistency", 0)
    /\ UNCHANGED storeVars
    /\ UNCHANGED <<lst, kind>>

NextList ==
    \/ RawNew
    \/ \E e \in ListEvents : RawAppend(e)
    \/ \E es \in EventSeqs : RawAppendAll(es)
    \/ NotEmpty
    \/ \E es \in EventSeqs : ListNew(es)
    \/ \E e \in ListEvents : ListAppend(e)
    \/ \E es \in EventSeqs : ListAppendAll(es)
    \/ ListRaw
    \/ TakeSnapshot
    \/ \E k \in 0..(MaxLen + 1) : TakeSnapshotAt(k)
    \/ CheckConsistency

SpecList == Init /\ [][NextList]_vars

(***************************************************************************)
(* Claims about the list (checked under SpecList).                         *)
(***************************************************************************)
Contiguous(l) == \A i \in 1..Len(l) : l[i].index = i - 1

\* the events of a stored list, without their tags
RECURSIVE FoldEvents(_)
FoldEvents(l) ==
    IF l = <<>> THEN DefaultStats
    ELSE apply(FoldEvents(SubSeq(l, 1, Len(l) - 1)), l[Len(l)].event)

\* C7 (index contiguity): in every list built by raw append, raw append_all,
\* new, finalized append and finalized append_all, and in every list the store
\* holds or a store call has in hand, the event at position i (counted from 0)
\* carries index i.
C7_IndexContiguity ==
    /\ Contiguous(lst)
    /\ \A id \in DOMAIN evs : Contiguous(evs[id])
    /\ \A t \in Threads : Contiguous(event_list[t])

C7_Witness ==
    /\ kind = "fin"
    /\ Len(lst) = MaxLen
    /\ last.op \in {"append", "append_all"}

\* C8 (list binding): StoredEventList::new(E) fails with EmptyEventList for the
\* empty E; otherwise it reads the identifier of the default aggregate after
\* applying E[0], fails with InvalidInitialEvent when that is empty, and else
\* succeeds with a list bound to that identifier.
C8_ListBinding ==
    last.op = "new" =>
       IF last.head = <<>>
       THEN res.tag = "Err" /\ res.val = "EmptyEventList"
       ELSE LET id == aggregate_id_of(apply(DefaultStats, last.head[1])) IN
            IF id = EmptySlug
            THEN res.tag = "Err" /\ res.val = "InvalidInitialEvent"
            ELSE /\ res.tag = "Ok"
                 /\ list_aggregate_id(res.val) = id
                 /\ res.val[1].event = last.head[1]
                 /\ lst = res.val

C8_Witness ==
    /\ last.op = "new"
    /\ res.tag = "Ok"
    /\ Len(res.val) = MaxSeq
    /\ list_aggregate_id(res.val) = "b"

\* C9 (snapshot fold): on a finalized list of length n, snapshot() returns
\* index n-1 with the fold of all n events, and snapshot_at(k) for k < n returns
\* index k with the fold of the events 0..=k only.
C9_SnapshotFold ==
    kind = "fin" =>
       /\ last.op = "snapshot" =>
             /\ res.val.index = Len(lst) - 1
             /\ res.val.aggregate = FoldEvents(lst)
       /\ (last.op = "snapshot_at" /\ last.k < Len(lst)) =>
             /\ res.val.index = last.k
             /\ res.val.aggregate = FoldEvents(SubSeq(lst, 1, last.k + 1))

C9_Witness ==
    /\ kind = "fin"
    /\ last.op = "snapshot_at"
    /\ last.k = 1
    /\ Len(lst) = MaxLen
    /\ res.val.aggregate.redirects = 1
    /\ FoldEvents(lst).redirects = 2

\* C10 (out-of-range snapshot_at): on a list of length n, raw or finalized,
\* snapshot_at(index) with index >= n yields no snapshot.
C10_OutOfRangeIsNone ==
    (last.op = "snapshot_at" /\ last.k >= Len(lst)) => res.tag = "None"

\* the part of C10 that the builder does satisfy
C10_RawOutOfRangeIsNone ==
    (kind = "raw" /\ last.op = "snapshot_at" /\ last.k >= Len(lst)) => res.tag = "None"

\* C11 (non-empty finalized list): a finalized list, however obtained (new, raw
\* append_all, not_empty, finalized append and append_all, a fetch or a remove
\* from the store), holds at least one event, and so does every history the
\* store map holds.
C11_FinalizedNonEmpty ==
    /\ kind = "fin" => Len(lst) >= 1
    /\ (last.op \in {"new", "raw_append_all", "append_all"} /\ res.tag = "Ok")
          => Len(res.val) >= 1
    /\ (last.op = "not_empty" /\ res.tag = "Some") => Len(res.val) >= 1
    /\ (last.op \in {"fetch", "remove"} /\ res.tag = "Ok") => Len(res.val) >= 1
    /\ \A id \in DOMAIN evs : Len(evs[id]) >= 1

C11_Witness ==
    /\ kind = "fin"
    /\ last.op = "not_empty"
    /\ res.tag = "Some"
    /\ Len(lst) = 1

Uniform(l) == \A i \in 1..Len(l) : l[i].aggregate_id = l[1].aggregate_id

\* C18 (check_consistency verifies uniformity): check_consistency returns Ok
\* exactly when every event carries the identifier of the first event and the
\* indices are 0, 1, 2, ...; so it returns Ok on every list built by append,
\* append_all and new, and it reports InconsistentEventAggregateId only when
\* some event's identifier differs from the first one's.
C18_ConsistencyVerifiesUniformity ==
    last.op = "check_consistency" =>
       /\ (res.tag = "Ok") <=> (Uniform(lst) /\ Contiguous(lst))
       /\ (res.tag = "Err" /\ res.val = "InconsistentEventAggregateId") => ~Uniform(lst)

\* the identifier an event yields when applied alone to the default aggregate
OwnId(event) == aggregate_id_of(apply(DefaultStats, event))

\* C19 (identifier binding is uniform and irreversible): every event of every
\* list carries the identifier of the list's first event; an append or
\* append_all, raw or finalized, on a list that has a first event keeps what
\* the list held, stores the new events under that same identifier whatever
\* they would yield alone, and leaves aggregate_id() as it was; a raw append on
\* such a list cannot fail.
C19_BindingIrreversible ==
    /\ [](/\ Uniform(lst)
          /\ \A id \in DOMAIN evs : Uniform(evs[id]))
    /\ [][(/\ lst # <<>>
            /\ last'.op \in {"raw_append", "raw_append_all", "append", "append_all"}) =>
              /\ last'.op # "raw_append_all" => res'.tag = "Ok"
              /\ res'.tag = "Ok" =>
                    /\ Len(lst') >= Len(lst)
                    /\ SubSeq(lst', 1, Len(lst)) = lst
                    /\ raw_aggregate_id(lst') = raw_aggregate_id(lst)
                    /\ \A i \in 1..Len(lst') :
                          lst'[i].aggregate_id = aggregate_id_unchecked(lst)]_vars

C19_Witness ==
    /\ Len(lst) = MaxLen
    /\ last.op = "raw_append"
    /\ res.tag = "Ok"
    /\ aggregate_id_unchecked(lst) = "a"
    /\ OwnId(lst[2].event) = "b"
    /\ OwnId(lst[MaxLen].event) = EmptySlug

\* C20 (a failed first append leaves the builder unbound): an append that
\* fails on an empty builder fails with InvalidInitialEvent and leaves it empty
\* with aggregate_id() = None; an append that follows, of an event that yields
\* a non-empty identifier, succeeds with index 0 and binds the builder to it.
C20_FailedFirstAppend ==
    [][(last'.op = "raw_append" /\ lst = <<>>) =>
          /\ res'.tag = "Err" =>
                /\ res'.val = "InvalidInitialEvent"
                /\ OwnId(last'.head[1]) = EmptySlug
                /\ lst' = <<>>
                /\ raw_aggregate_id(lst') = None
          /\ (last'.retry /\ OwnId(last'.head[1]) # EmptySlug) =>
                /\ res'.tag = "Ok"
                /\ res'.val = StoredEvent(OwnId(last'.head[1]), 0, last'.head[1])
                /\ lst' = <<res'.val>>
                /\ raw_aggregate_id(lst') = Some(OwnId(last'.head[1]))]_vars

C20_Witness ==
    /\ last.op = "raw_append"
    /\ last.retry
    /\ res.tag = "Ok"
    /\ kind = "raw"
    /\ lst = <<res.val>>
    /\ raw_aggregate_id(lst) = Some("b")

(***************************************************************************)
(* MemEventStore (mem_store.rs): the map operations done under the lock.   *)
(***************************************************************************)
NotExist == Err("AggregateIsNotExist")

\* a plausible slip: the committed events are added to the stored history
map_insert_extend(m, id, l) ==
    [k \in (DOMAIN m) \cup {id} |->
        IF k = id THEN (IF id \in DOMAIN m THEN m[id] \o l ELSE l) ELSE m[k]]

\* HashMap::insert
map_insert(m, id, l) == [k \in (DOMAIN m) \cup {id} |-> IF k = id THEN l ELSE m[k]]

\* a plausible slip: the entry is never deleted
map_remove_nothing(m, id) == m

\* a plausible slip: the history is cleared and its entry stays in the map
map_remove_clears(m, id) == [k \in DOMAIN m |-> IF k = id THEN <<>> ELSE m[k]]

\* HashMap::remove: the map afterwards
map_remove(m, id) == [k \in (DOMAIN m) \ {id} |-> m[k]]

\* MemEventStore::fetch, the part under the read guard
fetch_locked(m, id) ==
    IF id \notin DOMAIN m THEN NotExist
    ELSE IF m[id] = <<>> THEN NotExist
         ELSE Ok(m[id])

\* MemEventStore::is_exist, the part under the read guard
is_exist_locked(m, id) == Ok(id \in DOMAIN m)

\* a plausible slip: the map is replaced by one that holds the committed history alone
commit_locked_alone(m, l) == map_insert(<<>>, list_aggregate_id(l), l)

\* a plausible slip: the history is filed under the identifier of its last event's slug field
commit_locked_wrong_key(m, l) == map_insert(m, l[Len(l)].event[2], l)

\* MemEventStore::commit, the part under the write guard: the map afterwards
commit_locked(m, l) == map_insert(m, list_aggregate_id(l), l)

(***************************************************************************)
(* SpecStore: threads calling fetch, is_exist, commit and remove on one    *)
(* store.  RwLock::read succeeds while no writer holds the lock,           *)
(* RwLock::write while nobody holds it; a guard is released when the call  *)
(* returns or at drop().                                                   *)
(***************************************************************************)
StoreOp(name, t, id) == [Op(name, 0) EXCEPT !.t = t, !.id = id]

\* the finalized lists threads commit: a Create for a slug, then redirects of "a"
StoreLists ==
    {list_append_all(list_new(<<CreateEvent(s, "u")>>).val, [i \in 1..n |-> StatEvent("a")]) :
        s \in StoreSlugs, n \in 0..(MaxStoreLen - 1)}

CanRead == writer = 0
CanWrite == writer = 0 /\ readers = {}

\* a call returns: its locals are gone
Return(t) ==
    /\ pc' = [pc EXCEPT ![t] = "idle"]
    /\ arg' = [arg EXCEPT ![t] = EmptySlug]
    /\ event_list' = [event_list EXCEPT ![t] = <<>>]

\* fetch: self.evs.read()
FetchLock(t, id) ==
    /\ pc[t] = "idle"
    /\ CanRead
    /\ readers' = readers \cup {t}
    /\ pc' = [pc EXCEPT ![t] = "fetch"]
    /\ arg' = [arg EXCEPT ![t] = id]
    /\ UNCHANGED <<listVars, serviceVars, copyVars, last, res, evs, writer, event_list, hist, removed>>

\* a plausible slip: fetch takes the entry out of the map instead of cloning it
FetchTakes(t, r) ==
    /\ pc[t] = "fetch"
    /\ res' = r
    /\ last' = StoreOp("fetch", t, arg[t])
    /\ readers' = readers \ {t}
    /\ removed' = None
    /\ evs' = map_remove(evs, arg[t])
    /\ Return(t)
    /\ UNCHANGED <<listVars, serviceVars, copyVars, writer, hist>>

\* fetch: get, clone, is_empty, return (the guard drops)
FetchAs(t, r) ==
    /\ pc[t] = "fetch"
    /\ res' = r
    /\ last' = StoreOp("fetch", t, arg[t])
    /\ readers' = readers \ {t}
    /\ removed' = None
    /\ Return(t)
    /\ UNCHANGED <<listVars, serviceVars, copyVars, evs, writer, hist>>

Fetch(t) == FetchAs(t, fetch_locked(evs, arg[t]))

\* is_exist: self.evs.read()
IsExistLock(t, id) ==
    /\ pc[t] = "idle"
    /\ CanRead
    /\ readers' = readers \cup {t}
    /\ pc' = [pc EXCEPT ![t] = "is_exist"]
    /\ arg' = [arg EXCEPT ![t] = id]
    /\ UNCHANGED <<listVars, serviceVars, copyVars, last, res, evs, writer, event_list, hist, removed>>

\* is_exist: contains_key, return
IsExistAs(t, r) ==
    /\ pc[t] = "is_exist"
    /\ res' = r
    /\ last' = StoreOp("is_exist", t, arg[t])
    /\ readers' = readers \ {t}
    /\ removed' = None
    /\ Return(t)
    /\ UNCHANGED <<listVars, serviceVars, copyVars, evs, writer, hist>>

IsExist(t) == IsExistAs(t, is_exist_locked(evs, arg[t]))

\* commit(event_list): self.evs.write()
CommitLock(t, l) ==
    /\ pc[t] = "idle"
    /\ CanWrite
    /\ writer' = t
    /\ pc' = [pc EXCEPT ![t] = "commit"]
    /\ event_list' = [event_list EXCEPT ![t] = l]
    /\ UNCHANGED <<listVars, serviceVars, copyVars, last, res, evs, readers, arg, hist, removed>>

\* commit: insert, return
CommitAs(t, r) ==
    /\ pc[t] = "commit"
    /\ evs' = commit_locked(evs, event_list[t])
    /\ hist' = [hist EXCEPT ![list_aggregate_id(event_list[t])] = Written("commit", event_list[t])]
    /\ res' = r
    /\ last' = StoreOp("commit", t, list_aggregate_id(event_list[t]))
    /\ writer' = 0
    /\ removed' = IF list_aggregate_id(event_list[t]) \in DOMAIN evs
                  THEN Some(evs[list_aggregate_id(event_list[t])])
                  ELSE None
    /\ Return(t)
    /\ UNCHANGED <<listVars, serviceVars, copyVars, readers>>

Commit(t) == CommitAs(t, Ok(Unit))

\* remove: self.evs.read()
RemoveLock(t, id) ==
    /\ pc[t] = "idle"
    /\ CanRead
    /\ readers' = readers \cup {t}
    /\ pc' = [pc EXCEPT ![t] = "remove_read"]
    /\ arg' = [arg EXCEPT ![t] = id]
    /\ UNCHANGED <<listVars, serviceVars, copyVars, last, res, evs, writer, event_list, hist, removed>>

\* a plausible slip: drop(events_map_read) is missing, the read guard is kept
RemoveReadKeepsGuard(t) ==
    /\ pc[t] = "remove_read"
    /\ IF arg[t] \notin DOMAIN evs
       THEN /\ res' = NotExist
            /\ last' = StoreOp("remove", t, arg[t])
            /\ removed' = None
            /\ readers' = readers \ {t}
            /\ Return(t)
       ELSE /\ event_list' = [event_list EXCEPT ![t] = evs[arg[t]]]
            /\ pc' = [pc EXCEPT ![t] = "remove_wait"]
            /\ UNCHANGED <<last, res, arg, removed, readers>>
    /\ UNCHANGED <<listVars, serviceVars, copyVars, evs, writer, hist>>

\* remove: get; None returns the error, Some(x) clones and drops the read guard
RemoveRead(t) ==
    /\ pc[t] = "remove_read"
    /\ readers' = readers \ {t}
    /\ IF arg[t] \notin DOMAIN evs
       THEN /\ res' = NotExist
            /\ last' = StoreOp("remove", t, arg[t])
            /\ removed' = None
            /\ Return(t)
       ELSE /\ event_list' = [event_list EXCEPT ![t] = evs[arg[t]]]
            /\ pc' = [pc EXCEPT ![t] = "remove_wait"]
            /\ UNCHANGED <<last, res, arg, removed>>
    /\ UNCHANGED <<listVars, serviceVars, copyVars, evs, writer, hist>>

\* remove: self.evs.write()
RemoveWriteLock(t) ==
    /\ pc[t] = "remove_wait"
    /\ CanWrite
    /\ writer' = t
    /\ pc' = [pc EXCEPT ![t] = "remove_write"]
    /\ UNCHANGED <<listVars, serviceVars, copyVars, last, res, evs, readers, arg, event_list, hist, removed>>

\* remove: events_map_write.remove(aggregate_id), return Ok(event_list)
RemoveWriteAs(t, r) ==
    /\ pc[t] = "remove_write"
    /\ removed' = IF arg[t] \in DOMAIN evs THEN Some(evs[arg[t]]) ELSE None
    /\ evs' = map_remove(evs, arg[t])
    /\ hist' = [hist EXCEPT ![arg[t]] = Written("remove", <<>>)]
    /\ res' = r
    /\ last' = StoreOp("remove", t, arg[t])
    /\ writer' = 0
    /\ Return(t)
    /\ UNCHANGED <<listVars, serviceVars, copyVars, readers>>

RemoveWrite(t) == RemoveWriteAs(t, Ok(event_list[t]))

NextStore ==
    \/ \E t \in Threads, id \in StoreSlugs : FetchLock(t, id)
    \/ \E t \in Threads : Fetch(t)
    \/ \E t \in Threads, id \in StoreSlugs : IsExistLock(t, id)
    \/ \E t \in Threads : IsExist(t)
    \/ \E t \in Threads, l \in StoreLists : CommitLock(t, l)
    \/ \E t \in Threads : Commit(t)
    \/ \E t \in Threads, id \in StoreSlugs : RemoveLock(t, id)
    \/ \E t \in Threads : RemoveRead(t)
    \/ \E t \in Threads : RemoveWriteLock(t)
    \/ \E t \in Threads : RemoveWrite(t)

SpecStore == Init /\ [][NextStore]_vars

(***************************************************************************)
(* Claims about the store (checked under SpecStore).                       *)
(***************************************************************************)
\* thread t's call returns in this step
FetchReturns(t) == pc[t] = "fetch" /\ pc'[t] = "idle"
IsExistReturns(t) == pc[t] = "is_exist" /\ pc'[t] = "idle"
RemoveReads(t) == pc[t] = "remove_read" /\ pc'[t] # "remove_read"

\* the identifier has a committed history: its last completed write is a commit
HasHistory(id) == hist[id].op = "commit"

\* C1 (store round-trip): when the last completed write on an identifier is
\* commit(L), a fetch of that identifier succeeds and returns a list with that
\* identifier and exactly L's events, in order, with L's indices.
C1_RoundTrip ==
    [][\A t \in Threads :
          (FetchReturns(t) /\ HasHistory(arg[t])) =>
             /\ res'.tag = "Ok"
             /\ res'.val = hist[arg[t]].list
             /\ list_aggregate_id(res'.val) = arg[t]]_vars

C1_Witness ==
    /\ last.op = "fetch"
    /\ res.tag = "Ok"
    /\ Len(res.val) = MaxStoreLen
    /\ HasHistory(last.id)
    /\ hist[last.id].list = res.val

\* C2 (absence): for an identifier with no committed history (never committed,
\* or removed since), fetch and remove fail with AggregateIsNotExist, is_exist
\* returns false, and the map is unchanged by the call.
C2_Absence ==
    [][\A t \in Threads :
          /\ (FetchReturns(t) /\ ~HasHistory(arg[t])) =>
                /\ res'.tag = "Err" /\ res'.val = "AggregateIsNotExist"
                /\ evs' = evs
          /\ (RemoveReads(t) /\ ~HasHistory(arg[t])) =>
                /\ pc'[t] = "idle"
                /\ res'.tag = "Err" /\ res'.val = "AggregateIsNotExist"
                /\ evs' = evs
          /\ (IsExistReturns(t) /\ ~HasHistory(arg[t])) =>
                /\ res'.tag = "Ok" /\ res'.val = FALSE
                /\ evs' = evs]_vars

C2_Witness ==
    /\ last.op = "remove"
    /\ res.tag = "Err"
    /\ hist[last.id].op = "remove"
    /\ \E id \in StoreSlugs : HasHistory(id)

\* C6 (remove is atomic): under any interleaving with commits of the same
\* identifier, the list a successful remove returns is the list it deleted from
\* the map: it never deletes a history other than the one it returns.
C6_RemoveAtomic ==
    (last.op = "remove" /\ res.tag = "Ok" /\ removed.tag = "Some") =>
       removed.val = res.val

CommitReturns(t) == pc[t] = "commit" /\ pc'[t] = "idle"

\* C21 (last writer wins, whole lists): after any interleaving of commits the
\* history stored for an identifier is exactly the list of the commit that took
\* the write lock last (and none after a remove), never a merge and never a
\* part of a list; a commit of the list already stored changes nothing.
C21_LastWriterWins ==
    /\ [](\A id \in StoreSlugs :
            IF HasHistory(id)
            THEN id \in DOMAIN evs /\ evs[id] = hist[id].list
            ELSE id \notin DOMAIN evs)
    /\ [][\A t \in Threads :
            CommitReturns(t) =>
               /\ evs'[list_aggregate_id(event_list[t])] = event_list[t]
               /\ (/\ list_aggregate_id(event_list[t]) \in DOMAIN evs
                   /\ evs[list_aggregate_id(event_list[t])] = event_list[t]) => evs' = evs]_vars

C21_Witness ==
    /\ last.op = "commit"
    /\ removed.tag = "Some"
    /\ Len(removed.val) = MaxStoreLen
    /\ Len(evs[last.id]) = 1
    /\ \E t \in Threads : t # last.t /\ pc[t] = "remove_wait" /\ arg[t] = last.id

(***************************************************************************)
(* SpecStoreFair: the store under a fair lock.  A thread inside a call     *)
(* keeps running; the lock grants no new read guard while a thread waits   *)
(* for the write guard, and a waiting writer that can be served again and  *)
(* again is served.                                                        *)
(***************************************************************************)
lockState == <<readers, writer, pc>>

WaitsForWrite(t) == pc[t] = "remove_wait"

\* the lock's policy: a read request queues behind a waiting writer
WriterWaits == \E u \in Threads : WaitsForWrite(u)

\* what the caller learns of a result here: whether it is Ok, and which error
Outcome(r) == IF r.tag = "Ok" THEN Ok(Unit) ELSE r

\* the histories committed here: the new ones, of one event
FreshLists == {l \in StoreLists : Len(l) = 1}

FairFetch(t) == FetchAs(t, Outcome(fetch_locked(evs, arg[t])))

FairIsExist(t) == IsExistAs(t, Outcome(is_exist_locked(evs, arg[t])))

FairRemoveWrite(t) == RemoveWriteAs(t, Outcome(Ok(event_list[t])))

NextStoreFair ==
    \/ \E t \in Threads, id \in StoreSlugs : ~WriterWaits /\ FetchLock(t, id)
    \/ \E t \in Threads : FairFetch(t)
    \/ \E t \in Threads, id \in StoreSlugs : ~WriterWaits /\ IsExistLock(t, id)
    \/ \E t \in Threads : FairIsExist(t)
    \/ \E t \in Threads, l \in FreshLists : CommitLock(t, l)
    \/ \E t \in Threads : Commit(t)
    \/ \E t \in Threads, id \in StoreSlugs : ~WriterWaits /\ RemoveLock(t, id)
    \/ \E t \in Threads : RemoveRead(t)
    \/ \E t \in Threads : RemoveWriteLock(t)
    \/ \E t \in Threads : FairRemoveWrite(t)

\* the step of thread t that leaves a guarded section, and the grant of the
\* write guard to the waiting thread t
Running(t) ==
    /\ \E p \in {"idle", "remove_wait"} : pc' = [pc EXCEPT ![t] = p]
    /\ FairFetch(t) \/ FairIsExist(t) \/ Commit(t) \/ RemoveRead(t) \/ FairRemoveWrite(t)

WriteGranted(t) == pc' = [pc EXCEPT ![t] = "remove_write"] /\ RemoveWriteLock(t)

SpecStoreFair ==
    /\ Init
    /\ [][NextStoreFair]_vars
    /\ \A t \in Threads : WF_lockState(Running(t)) /\ SF_lockState(WriteGranted(t))

C26_RemovedAtMostOnce ==
    (last.op = "remove" /\ res.tag = "Ok") => removed.tag = "Some"

\* C27 (is_exist agrees with fetch): in every reachable state of the store and
\* for every identifier, is_exist answers true exactly when fetch succeeds; no
\* stored history is empty, so fetch never fails on an entry that exists.
C27_IsExistAgreesWithFetch ==
    \A id \in ServiceSlugs :
        /\ is_exist_locked(evs, id).tag = "Ok"
        /\ is_exist_locked(evs, id).val <=> fetch_locked(evs, id).tag = "Ok"
        /\ id \in DOMAIN evs => evs[id] # <<>>

C27_Witness ==
    /\ last.op = "is_exist"
    /\ res.tag = "Ok"
    /\ res.val
    /\ fetch_locked(evs, last.id).tag = "Ok"
    /\ \E id \in StoreSlugs : hist[id].op = "remove" /\ fetch_locked(evs, id).tag = "Err"

SameResult(r1, r2) == r1.tag = r2.tag /\ r1.val = r2.val

\* a step of a query: fetch or is_exist takes its read guard or returns, or the
\* service answers get_stats
QueryStep ==
    \/ \E t \in Threads : pc[t] = "idle" /\ pc'[t] \in {"fetch", "is_exist"}
    \/ \E t \in Threads : FetchReturns(t) \/ IsExistReturns(t)
    \/ last'.op = "get_stats"

\* C28 (queries are read-only): a step of fetch, is_exist or get_stats, whether
\* the call succeeds or fails, leaves the map as it was: every identifier keeps
\* its history, and fetch and is_exist answer afterwards as they did before.
C28_QueriesReadOnly ==
    [][QueryStep =>
         /\ evs' = evs
         /\ \A id \in ServiceSlugs :
               /\ SameResult(fetch_locked(evs', id), fetch_locked(evs, id))
               /\ SameResult(is_exist_locked(evs', id), is_exist_locked(evs, id))]_vars

C28_Witness ==
    /\ last.op = "fetch"
    /\ res.tag = "Err"
    /\ \E id \in StoreSlugs : id \in DOMAIN evs /\ Len(evs[id]) = MaxStoreLen
    /\ \E t \in Threads : pc[t] = "is_exist" /\ arg[t] \in DOMAIN evs
    /\ \E t \in Threads : pc[t] = "fetch" /\ arg[t] \in DOMAIN evs

\* C22 (commit frame): commit(L) changes only the map entry keyed by L's
\* identifier; for every other identifier the stored history, and what fetch
\* and is_exist answer, are the same after the commit as before.
C22_CommitFrame ==
    [][\A t \in Threads :
          CommitReturns(t) =>
             \A id \in StoreSlugs \ {list_aggregate_id(event_list[t])} :
                /\ (id \in DOMAIN evs') = (id \in DOMAIN evs)
                /\ id \in DOMAIN evs => evs'[id] = evs[id]
                /\ SameResult(fetch_locked(evs', id), fetch_locked(evs, id))
                /\ SameResult(is_exist_locked(evs', id), is_exist_locked(evs, id))]_vars

C22_Witness ==
    /\ last.op = "commit"
    /\ removed.tag = "Some"
    /\ removed.val # evs[last.id]
    /\ \E id \in StoreSlugs \ {last.id} :
          /\ HasHistory(id)
          /\ Len(evs[id]) = MaxStoreLen

(***************************************************************************)
(* SpecCopies: one caller and the store, each list an object with its own  *)
(* Vec buffer.  Clone makes a new object, a move hands the object over, a  *)
(* dropped object's buffer is freed.  evs is the map seen through the      *)
(* buffers of the objects it owns.                                         *)
(***************************************************************************)
Addrs == 1..(Cardinality(StoreSlugs) + 2)
NoObject == 0

\* the allocator: the first free buffer
alloc(c) == CHOOSE a \in Addrs : c[a] = <<>> /\ \A b \in Addrs : b < a => c[b] # <<>>

\* a plausible slip: a clone is another handle to the same buffer
vec_clone_shared(c, a) == [at |-> a, cells |-> c]

\* #[derive(Clone)] on the list: a new Vec with a clone of every event
vec_clone(c, a) == [at |-> alloc(c), cells |-> [c EXCEPT ![alloc(c)] = c[a]]]

\* drop of a list object (nothing to drop for NoObject)
vec_drop(c, a) == IF a = NoObject THEN c ELSE [c EXCEPT ![a] = <<>>]

\* the HashMap from identifier to history, read through the objects it owns
map_view(c, st) == [id \in DOMAIN st |-> c[st[id]]]

\* the events a caller appends to its copy
CopyEvents == {StatEvent(s) : s \in StoreSlugs}

\* the caller makes a list: StoredEventList::new(&[Create(slug, url)])
CopyNew(slug) ==
    /\ LET c == vec_drop(cells, mine) IN
       /\ mine' = alloc(c)
       /\ cells' = [c EXCEPT ![alloc(c)] = list_new(<<CreateEvent(slug, "u")>>).val]
    /\ res' = None
    /\ last' = StoreOp("copy_new", 0, slug)
    /\ UNCHANGED <<listVars, serviceVars, readers, writer, pc, arg, event_list, hist, removed,
                   evs, stored>>

\* let list = store.fetch(id)?: the clone made under the read guard is the caller's
CopyFetch(id) ==
    /\ res' = fetch_locked(evs, id)
    /\ last' = StoreOp("copy_fetch", 0, id)
    /\ IF fetch_locked(evs, id).tag = "Ok"
       THEN LET cl == vec_clone(cells, stored[id]) IN
            /\ cells' = vec_drop(cl.cells, mine)
            /\ mine' = cl.at
       ELSE UNCHANGED <<cells, mine>>
    /\ UNCHANGED <<listVars, serviceVars, readers, writer, pc, arg, event_list, hist, removed,
                   evs, stored>>

\* list.append(event) on the caller's list
CopyAppend(event) ==
    /\ mine # NoObject
    /\ Len(cells[mine]) <= MaxStoreLen
    /\ cells' = [cells EXCEPT ![mine] = list_append(@, event)]
    /\ evs' = map_view(cells', stored)
    /\ res' = Ok(cells'[mine][Len(cells'[mine])])
    /\ last' = StoreOp("copy_append", 0, list_aggregate_id(cells[mine]))
    /\ UNCHANGED <<listVars, serviceVars, readers, writer, pc, arg, event_list, hist, removed,
                   stored, mine>>

\* commit of the object h under its identifier; the object it replaces is dropped
commit_object(c, st, h) ==
    LET id == list_aggregate_id(c[h])
        old == IF id \in DOMAIN st THEN st[id] ELSE NoObject
    IN  [cells |-> vec_drop(c, old), stored |-> map_insert(st, id, h)]

\* store.commit(list.clone()): the caller keeps its list
CopyCommitClone ==
    /\ mine # NoObject
    /\ LET cl == vec_clone(cells, mine)
           r == commit_object(cl.cells, stored, cl.at)
       IN  /\ cells' = r.cells
           /\ stored' = r.stored
           /\ evs' = map_view(r.cells, r.stored)
    /\ hist' = [hist EXCEPT ![list_aggregate_id(cells[mine])] = Written("commit", cells[mine])]
    /\ res' = Ok(Unit)
    /\ last' = StoreOp("copy_commit_clone", 0, list_aggregate_id(cells[mine]))
    /\ UNCHANGED <<listVars, serviceVars, readers, writer, pc, arg, event_list, removed, mine>>

\* store.commit(list): the list is moved into the map
CopyCommit ==
    /\ mine # NoObject
    /\ LET r == commit_object(cells, stored, mine) IN
       /\ cells' = r.cells
       /\ stored' = r.stored
       /\ evs' = map_view(r.cells, r.stored)
    /\ mine' = NoObject
    /\ hist' = [hist EXCEPT ![list_aggregate_id(cells[mine])] = Written("commit", cells[mine])]
    /\ res' = Ok(Unit)
    /\ last' = StoreOp("copy_commit", 0, list_aggregate_id(cells[mine]))
    /\ UNCHANGED <<listVars, serviceVars, readers, writer, pc, arg, event_list, removed>>

NextCopies ==
    \/ \E slug \in StoreSlugs : CopyNew(slug)
    \/ \E id \in StoreSlugs : CopyFetch(id)
    \/ \E e \in CopyEvents : CopyAppend(e)
    \/ CopyCommitClone
    \/ CopyCommit

SpecCopies == Init /\ [][NextCopies]_vars

\* C23 (independent copies): an append to a list the caller got from fetch, or
\* kept after committing a clone of it, changes no history of the store; a
\* fetch keeps returning the history committed last, whatever the caller has
\* appended to its own list since.
C23_IndependentCopies ==
    /\ [][last'.op = "copy_append" =>
            /\ evs' = evs
            /\ \A id \in StoreSlugs :
                  SameResult(fetch_locked(evs', id), fetch_locked(evs, id))]_vars
    /\ [](\A id \in StoreSlugs : HasHistory(id) => evs[id] = hist[id].list)
    /\ []((last.op = "copy_fetch" /\ HasHistory(last.id)) =>
            /\ res.tag = "Ok"
            /\ res.val = hist[last.id].list)

C23_Witness ==
    /\ last.op = "copy_append"
    /\ mine # NoObject
    /\ HasHistory(last.id)
    /\ stored[last.id] # mine
    /\ Len(cells[mine]) = Len(evs[last.id]) + 1
    /\ SubSeq(cells[mine], 1, Len(evs[last.id])) = evs[last.id]
    /\ Len(evs[last.id]) = MaxStoreLen

(***************************************************************************)
(* UrlShortenerService (lib.rs).  The service owns its store and takes     *)
(* &mut self, so its handlers run one at a time and each store call finds  *)
(* the lock free.                                                          *)
(***************************************************************************)
Panic(msg) == [tag |-> "Panic", val |-> msg]

\* url_parser::Url::parse(url).is_ok(), on the urls of the model
url_parse_ok(url) == url \notin InvalidUrls

\* a plausible slip: the missing aggregate is mapped to the wrong variant
map_fetch_err_wrong_variant(e) ==
    IF e = "AggregateIsNotExist" THEN Err("SlugAlreadyInUse") ELSE Panic(e)

\* map_fetch_err_to_shortener_err
map_fetch_err_to_shortener_err(e) ==
    IF e = "AggregateIsNotExist" THEN Err("SlugNotFound") ELSE Panic(e)

\* a SlugGenerator, called with one url: its answer for each bump
Generators == [0..BumpMax -> ServiceSlugs]
NoGenerator == [b \in 0..BumpMax |-> EmptySlug]

\* a plausible slip: the first candidate is taken without probing the store
generate_loop_unprobed(m, g, b) == [res |-> Ok(g[b]), bump |-> b]

\* a plausible slip: the bump wraps around and the exhaustion test is missing
probe_once_wrapping(m, g, b) ==
    LET generated_slug == g[b] IN
    IF ~is_exist_locked(m, generated_slug).val
    THEN [done |-> TRUE, res |-> Ok(generated_slug), bump |-> b]
    ELSE [done |-> FALSE, res |-> None, bump |-> (b + 1) % (BumpMax + 1)]

\* one pass through the body of the loop: [done, res, bump afterwards]
probe_once(m, g, b) ==
    LET generated_slug == g[b] IN
    IF ~is_exist_locked(m, generated_slug).val
    THEN [done |-> TRUE, res |-> Ok(generated_slug), bump |-> b]
    ELSE LET bumped == (b + 1) % (BumpMax + 1) IN
         IF bumped >= BumpMax
         THEN [done |-> TRUE,
               res |-> Panic("unreachable: somehow bump reaches it's maximum"),
               bump |-> bumped]
         ELSE [done |-> FALSE, res |-> None, bump |-> bumped]

\* handle_create_short_link, the loop of the None arm: [res, bump at exit]
RECURSIVE generate_loop(_, _, _)
generate_loop(m, g, b) ==
    LET p == probe_once(m, g, b) IN
    IF p.done THEN [res |-> p.res, bump |-> p.bump] ELSE generate_loop(m, g, p.bump)

\* a plausible slip: a supplied slug is used without the is_exist probe
choose_slug_unprobed(m, slug, g) ==
    IF slug.tag = "Some" THEN [res |-> Ok(slug.val), bump |-> 0] ELSE generate_loop(m, g, 0)

\* handle_create_short_link, the match on the slug argument: [res, bump]
choose_slug(m, slug, g) ==
    IF slug.tag = "Some"
    THEN IF is_exist_locked(m, slug.val).val
         THEN [res |-> Err("SlugAlreadyInUse"), bump |-> 0]
         ELSE [res |-> Ok(slug.val), bump |-> 0]
    ELSE generate_loop(m, g, 0)

\* handle_create_short_link once the slug is chosen: the new history, its
\* snapshot and its commit
create_link(m, slug, url, b) ==
    LET made == list_new(<<CreateEvent(slug, url)>>) IN
    IF made.tag # "Ok"
    THEN [evs |-> m, res |-> Panic(made.val), bump |-> b]
    ELSE [evs |-> commit_locked(m, made.val),
          res |-> Ok(list_snapshot(made.val).aggregate.link),
          bump |-> b]

\* a plausible slip: the slug is settled before the url is parsed
handle_create_slug_first(m, url, slug, g) ==
    LET chosen == choose_slug(m, slug, g) IN
    IF chosen.res.tag # "Ok"
    THEN [evs |-> m, res |-> chosen.res, bump |-> chosen.bump]
    ELSE IF ~url_parse_ok(url)
         THEN [evs |-> m, res |-> Err("InvalidUrl"), bump |-> chosen.bump]
         ELSE create_link(m, chosen.res.val, url, chosen.bump)

\* handle_create_short_link: [evs |-> the map afterwards, res, bump]
handle_create_short_link(m, url, slug, g) ==
    IF ~url_parse_ok(url)
    THEN [evs |-> m, res |-> Err("InvalidUrl"), bump |-> 0]
    ELSE LET chosen == choose_slug(m, slug, g) IN
         IF chosen.res.tag # "Ok"
         THEN [evs |-> m, res |-> chosen.res, bump |-> chosen.bump]
         ELSE create_link(m, chosen.res.val, url, chosen.bump)

\* a plausible slip: the redirect event is recorded twice
handle_redirect_twice(m, slug) ==
    LET fetched == fetch_locked(m, slug) IN
    IF fetched.tag = "Err"
    THEN [evs |-> m, res |-> map_fetch_err_to_shortener_err(fetched.val)]
    ELSE LET l == list_append_all(fetched.val, <<StatEvent(slug), StatEvent(slug)>>) IN
         [evs |-> commit_locked(m, l), res |-> Ok(list_snapshot(l).aggregate.link)]

\* a plausible slip: the extended history is never committed
handle_redirect_uncommitted(m, slug) ==
    LET fetched == fetch_locked(m, slug) IN
    IF fetched.tag = "Err"
    THEN [evs |-> m, res |-> map_fetch_err_to_shortener_err(fetched.val)]
    ELSE [evs |-> m,
          res |-> Ok(list_snapshot(list_append_all(fetched.val, <<StatEvent(slug)>>)).aggregate.link)]

\* handle_redirect: [evs |-> the map afterwards, res]
handle_redirect(m, slug) ==
    LET fetched == fetch_locked(m, slug) IN
    IF fetched.tag = "Err"
    THEN [evs |-> m, res |-> map_fetch_err_to_shortener_err(fetched.val)]
    ELSE LET l == list_append_all(fetched.val, <<StatEvent(slug)>>) IN
         [evs |-> commit_locked(m, l), res |-> Ok(list_snapshot(l).aggregate.link)]

\* get_stats
get_stats(m, slug) ==
    LET fetched == fetch_locked(m, slug) IN
    IF fetched.tag = "Err"
    THEN map_fetch_err_to_shortener_err(fetched.val)
    ELSE Ok(list_snapshot(fetched.val).aggregate)

(***************************************************************************)
(* SpecService: the service under its two commands and its query.          *)
(***************************************************************************)
ServiceOp(name, b, slug, url) == [Op(name, b) EXCEPT !.id = slug, !.url = url]

Created(r) == IF r.res.tag = "Ok" THEN map_insert(created, r.res.val.slug, r.res.val) ELSE created

\* handle_create_short_link(url, Some(slug))
CreateWithSlug(url, slug) ==
    /\ LET r == handle_create_short_link(evs, url, Some(slug), NoGenerator) IN
       /\ evs' = r.evs
       /\ res' = r.res
       /\ last' = ServiceOp("create_with_slug", r.bump, slug, url)
       /\ created' = Created(r)
    /\ UNCHANGED <<listVars, lockVars, copyVars, loopVars, hits>>

\* handle_create_short_link(url, None), the generator answering g
CreateGenerated(url, g) ==
    /\ LET r == handle_create_short_link(evs, url, None, g) IN
       /\ evs' = r.evs
       /\ res' = r.res
       /\ last' = ServiceOp("create_generated", r.bump, EmptySlug, url)
       /\ created' = Created(r)
    /\ UNCHANGED <<listVars, lockVars, copyVars, loopVars, hits>>

HandleRedirect(slug) ==
    /\ slug \in DOMAIN evs => Len(evs[slug]) <= MaxRedirects
    /\ LET r == handle_redirect(evs, slug) IN
       /\ evs' = r.evs
       /\ res' = r.res
       /\ hits' = IF r.res.tag = "Ok" THEN [hits EXCEPT ![slug] = @ + 1] ELSE hits
    /\ last' = ServiceOp("redirect", 0, slug, "")
    /\ UNCHANGED <<listVars, lockVars, copyVars, loopVars, created>>

GetStats(slug) ==
    /\ res' = get_stats(evs, slug)
    /\ last' = ServiceOp("get_stats", 0, slug, "")
    /\ UNCHANGED <<listVars, lockVars, copyVars, loopVars, evs, created, hits>>

NextService ==
    \/ \E url \in ServiceUrls, slug \in ServiceSlugs : CreateWithSlug(url, slug)
    \/ \E url \in ServiceUrls, g \in Generators : CreateGenerated(url, g)
    \/ \E slug \in ServiceSlugs : HandleRedirect(slug)
    \/ \E slug \in ServiceSlugs : GetStats(slug)

SpecService == Init /\ [][NextService]_vars

(***************************************************************************)
(* SpecLoop: handle_create_short_link(url, None) taken one pass of its     *)
(* loop at a time, between creates with a supplied slug.  The generator's  *)
(* answers for the call are chosen on entry and dropped on return.         *)
(***************************************************************************)
\* handle_create_short_link(url, None) up to the loop: the url is parsed, bump = 0
GenerateEnter(url, g) ==
    /\ lpc = "idle"
    /\ IF ~url_parse_ok(url)
       THEN /\ res' = Err("InvalidUrl")
            /\ last' = ServiceOp("create_generated", 0, EmptySlug, url)
            /\ UNCHANGED loopVars
       ELSE /\ res' = None
            /\ last' = ServiceOp("generate_enter", 0, EmptySlug, url)
            /\ gen' = g
            /\ bump' = 0
            /\ lpc' = "probe"
    /\ UNCHANGED <<listVars, lockVars, copyVars, evs, created, hits>>

\* one pass of the loop; on break, the rest of the handler
GenerateProbe ==
    /\ lpc = "probe"
    /\ LET p == probe_once(evs, gen, bump) IN
       /\ bump' = p.bump
       /\ IF ~p.done
          THEN /\ res' = None
               /\ last' = ServiceOp("probe", bump, gen[bump], last.url)
               /\ UNCHANGED <<evs, created, gen, lpc>>
          ELSE /\ lpc' = "idle"
               /\ gen' = NoGenerator
               /\ last' = ServiceOp("create_generated", p.bump, EmptySlug, last.url)
               /\ IF p.res.tag # "Ok"
                  THEN res' = p.res /\ UNCHANGED <<evs, created>>
                  ELSE LET r == create_link(evs, p.res.val, last.url, p.bump) IN
                       /\ evs' = r.evs
                       /\ res' = r.res
                       /\ created' = Created(r)
    /\ UNCHANGED <<listVars, lockVars, copyVars, hits>>

\* &mut self: no other handler runs while a create is inside its loop
CreateBetween(url, slug) == lpc = "idle" /\ CreateWithSlug(url, slug)

NextLoop ==
    \/ \E url \in ServiceUrls, slug \in ServiceSlugs : CreateBetween(url, slug)
    \/ \E url \in ServiceUrls, g \in Generators : GenerateEnter(url, g)
    \/ GenerateProbe

\* the handler is a running call: its loop body is taken whenever it can be
\* (every pass changes bump or lpc)
SpecLoop == Init /\ [][NextLoop]_vars /\ WF_loopVars(GenerateProbe)

(***************************************************************************)
(* Claims about the service (checked under SpecService).                   *)
(***************************************************************************)
\* C3 (redirect counting): get_stats for a slug created through the service
\* succeeds and reports as redirects the number of handle_redirect calls that
\* succeeded for that slug, whatever was done to other slugs in between; the
\* count is 0 right after the create.
C3_RedirectCount ==
    /\ (last.op = "get_stats" /\ last.id \in DOMAIN created) =>
          /\ res.tag = "Ok"
          /\ res.val.redirects = hits[last.id]
    /\ (last.op \in {"create_with_slug", "create_generated"} /\ res.tag = "Ok") =>
          /\ hits[res.val.slug] = 0
          /\ get_stats(evs, res.val.slug).val.redirects = 0

C3_Witness ==
    /\ last.op = "get_stats"
    /\ res.tag = "Ok"
    /\ res.val.redirects = MaxRedirects
    /\ \E other \in DOMAIN created : other # last.id /\ hits[other] = 1

\* C4 (duplicate slug): a create with a valid url and a supplied slug that has
\* a history returns SlugAlreadyInUse and leaves the store as it was; get_stats
\* keeps reporting the link of the first create and its redirect count.
C4_DuplicateSlug ==
    [][/\ (/\ last'.op = "create_with_slug"
           /\ url_parse_ok(last'.url)
           /\ last'.id \in DOMAIN evs) =>
              /\ res'.tag = "Err" /\ res'.val = "SlugAlreadyInUse"
              /\ evs' = evs
       /\ (last'.op = "get_stats" /\ last'.id \in DOMAIN created) =>
              /\ res'.tag = "Ok"
              /\ res'.val.link = created[last'.id]
              /\ res'.val.redirects = hits[last'.id]]_vars

C4_Witness ==
    /\ last.op = "create_with_slug"
    /\ res.tag = "Err"
    /\ res.val = "SlugAlreadyInUse"
    /\ last.id \in DOMAIN created
    /\ last.url # created[last.id].url
    /\ hits[last.id] = MaxRedirects

\* C5 (generator collision avoidance): a create without a supplied slug that
\* returns Ok returns a slug that had no history when it was probed, so its
\* commit adds an entry and overwrites none, whatever the generator answers.
C5_NoOverwrite ==
    [][(last'.op = "create_generated" /\ res'.tag = "Ok") =>
          /\ res'.val.slug \notin DOMAIN evs
          /\ DOMAIN evs' = (DOMAIN evs) \cup {res'.val.slug}
          /\ \A id \in DOMAIN evs : evs'[id] = evs[id]]_vars

C5_Witness ==
    /\ last.op = "create_generated"
    /\ res.tag = "Ok"
    /\ last.k > 0
    /\ Cardinality(DOMAIN evs) = 2

\* C12 (invalid url): a create whose url the parser rejects returns InvalidUrl
\* whether the slug argument is absent, fresh or in use, and leaves the store
\* as it was.
C12_InvalidUrl ==
    [][(/\ last'.op \in {"create_with_slug", "create_generated"}
        /\ ~url_parse_ok(last'.url)) =>
           /\ res'.tag = "Err"
           /\ res'.val = "InvalidUrl"
           /\ evs' = evs]_vars

C12_Witness ==
    /\ last.op = "create_with_slug"
    /\ last.url \in InvalidUrls
    /\ last.id \in DOMAIN evs
    /\ res.tag = "Err"
    /\ res.val = "InvalidUrl"

\* C13 (unknown slug): handle_redirect and get_stats for a slug that has no
\* history return SlugNotFound; neither call creates a history for that slug
\* nor changes the history of another.
C13_UnknownSlug ==
    [][(/\ last'.op \in {"redirect", "get_stats"}
        /\ last'.id \notin DOMAIN evs) =>
           /\ res'.tag = "Err"
           /\ res'.val = "SlugNotFound"
           /\ evs' = evs]_vars

C13_Witness ==
    /\ last.op = "redirect"
    /\ last.id = "b"
    /\ res.tag = "Err"
    /\ res.val = "SlugNotFound"
    /\ DOMAIN evs = {"a"}
    /\ hits["a"] = 1

\* C14 (link stability): a create that succeeds returns the ShortLink of the
\* url it was given and of the slug it was given or generated, filed under that
\* slug; every later handle_redirect and get_stats for the slug succeeds with
\* that same ShortLink; the slug read from a folded history is its store key.
C14_LinkStability ==
    /\ (last.op \in {"create_with_slug", "create_generated"} /\ res.tag = "Ok") =>
          /\ res.val.url = last.url
          /\ last.op = "create_with_slug" => res.val.slug = last.id
          /\ res.val.slug \in DOMAIN evs
          /\ evs[res.val.slug] =
                <<StoredEvent(res.val.slug, 0, CreateEvent(res.val.slug, last.url))>>
          /\ created[res.val.slug] = res.val
    /\ (last.op = "redirect" /\ last.id \in DOMAIN created) =>
          /\ res.tag = "Ok"
          /\ res.val = created[last.id]
          /\ res.val.slug = last.id
    /\ (last.op = "get_stats" /\ last.id \in DOMAIN created) =>
          /\ res.tag = "Ok"
          /\ res.val.link = created[last.id]
          /\ res.val.link.slug = last.id
    /\ DOMAIN evs = DOMAIN created
    /\ \A id \in DOMAIN evs :
          /\ aggregate_id_of(list_snapshot(evs[id]).aggregate) = id
          /\ list_snapshot(evs[id]).aggregate.link = created[id]

C14_Witness ==
    /\ last.op = "redirect"
    /\ res.tag = "Ok"
    /\ hits[last.id] = MaxRedirects
    /\ res.val = created[last.id]
    /\ \E other \in DOMAIN created : created[other].url # res.val.url

(***************************************************************************)
(* base64.rs and gen.rs.  A char is its ASCII code, a String the sequence  *)
(* of its chars; u8 arithmetic is kept to 8 bits.                          *)
(***************************************************************************)
UPPERCASEOFFSET == 65
LOWERCASEOFFSET == 71
DIGITOFFSET == -4
\* impl Alphabet for Std: '+' and '/'
StdSixtySecondSymbol == 43
StdSixtyThirdSymbol == 47
\* impl Alphabet for Url: '-' and '_'
UrlSixtySecondSymbol == 45
UrlSixtyThirdSymbol == 95
\* Alphabet::get_padding_char: '='
PaddingChar == 61

\* a plausible slip: the generator encodes with the Std alphabet
get_char_for_index_std(index) ==
    IF index \in 0..25 THEN Some(index + UPPERCASEOFFSET)
    ELSE IF index \in 26..51 THEN Some(index + LOWERCASEOFFSET)
    ELSE IF index \in 52..61 THEN Some(index + DIGITOFFSET)
    ELSE IF index = 62 THEN Some(StdSixtySecondSymbol)
    ELSE IF index = 63 THEN Some(StdSixtyThirdSymbol)
    ELSE None

\* Alphabet::get_char_for_index, for the Url alphabet
get_char_for_index(index) ==
    IF index \in 0..25 THEN Some(index + UPPERCASEOFFSET)
    ELSE IF index \in 26..51 THEN Some(index + LOWERCASEOFFSET)
    ELSE IF index \in 52..61 THEN Some(index + DIGITOFFSET)
    ELSE IF index = 62 THEN Some(UrlSixtySecondSymbol)
    ELSE IF index = 63 THEN Some(UrlSixtyThirdSymbol)
    ELSE None

\* u8 shifts and masks: x >> n, x << n, x & (2^n - 1), on 8 bits
Shr(x, n) == x \div (2 ^ n)
Shl(x, n) == (x * (2 ^ n)) % 256
LowBits(x, n) == x % (2 ^ n)

\* split: the 6-bit groups of a chunk of 1, 2 or 3 bytes (| joins disjoint bits)
split(chunk) ==
    IF Len(chunk) = 1
    THEN <<Shr(chunk[1], 2),
           Shl(LowBits(chunk[1], 2), 4)>>
    ELSE IF Len(chunk) = 2
    THEN <<Shr(chunk[1], 2),
           Shl(LowBits(chunk[1], 2), 4) + Shr(chunk[2], 4),
           Shl(LowBits(chunk[2], 4), 2)>>
    ELSE <<Shr(chunk[1], 2),
           Shl(LowBits(chunk[1], 2), 4) + Shr(chunk[2], 4),
           Shl(LowBits(chunk[2], 4), 2) + Shr(chunk[3], 6),
           LowBits(chunk[3], 6)>>

\* encode_chunk: four padding chars, overwritten by the chars of the groups
encode_chunk(chunk) ==
    [i \in 1..4 |->
        IF i <= Len(chunk) /\ get_char_for_index(chunk[i]).tag = "Some"
        THEN get_char_for_index(chunk[i]).val
        ELSE PaddingChar]

\* encode: data.chunks(3).map(split).flat_map(encode_chunk)
RECURSIVE encode(_)
encode(data) ==
    IF data = <<>> THEN <<>>
    ELSE LET n == IF Len(data) < 3 THEN Len(data) ELSE 3 IN
         encode_chunk(split(SubSeq(data, 1, n))) \o encode(SubSeq(data, n + 1, Len(data)))

\* u32::to_be_bytes and u16::to_be_bytes
u32_to_be_bytes(x) ==
    <<x \div 16777216, (x \div 65536) % 256, (x \div 256) % 256, x % 256>>
u16_to_be_bytes(x) == <<x \div 256, x % 256>>

\* SimplestSlugGenerator::generate, the clock reading subsec_nanos: result_bytes
result_bytes(subsec_nanos, b) == u32_to_be_bytes(subsec_nanos) \o u16_to_be_bytes(b)

\* SimplestSlugGenerator::generate
generate(subsec_nanos, b) == encode(result_bytes(subsec_nanos, b))

\* subsec_nanos() is below 10^9; bump is any u16
NanosSamples ==
    {n \in {a * 16777216 + b * 65536 + c * 256 + d :
               a \in {0, 59}, b \in {0, 154}, c \in {0, 62, 255}, d \in {0, 165, 255}} :
        n < 1000000000}
BumpSamples == {0, 1, 128, 255, 256, 65534, 65535}

(***************************************************************************)
(* SpecGen: the generator called with a clock reading and a bump.          *)
(***************************************************************************)
Generate(subsec_nanos, b) ==
    /\ res' = Ok(generate(subsec_nanos, b))
    /\ last' = [Op("generate", b) EXCEPT !.data = result_bytes(subsec_nanos, b)]
    /\ UNCHANGED <<listVars, storeVars>>

NextGen == \E subsec_nanos \in NanosSamples, b \in BumpSamples : Generate(subsec_nanos, b)

SpecGen == Init /\ [][NextGen]_vars

\* RFC 4648, table 2: the URL and filename safe alphabet, as ASCII codes
UrlSafeAlphabet ==
    <<65, 66, 67, 68, 69, 70, 71, 72, 73, 74, 75, 76, 77,
      78, 79, 80, 81, 82, 83, 84, 85, 86, 87, 88, 89, 90,
      97, 98, 99, 100, 101, 102, 103, 104, 105, 106, 107, 108, 109,
      110, 111, 112, 113, 114, 115, 116, 117, 118, 119, 120, 121, 122,
      48, 49, 50, 51, 52, 53, 54, 55, 56, 57, 45, 95>>

\* the 24-bit group of three bytes, read as four base-64 digits
Base64Digits(b) ==
    LET n == b[1] * 65536 + b[2] * 256 + b[3] IN
    <<n \div 262144, (n \div 4096) % 64, (n \div 64) % 64, n % 64>>

\* the URL-safe encoding of six bytes, by the alphabet table
UrlSafeBase64Of6(b) ==
    LET d == Base64Digits(SubSeq(b, 1, 3)) \o Base64Digits(SubSeq(b, 4, 6)) IN
    [i \in 1..8 |-> UrlSafeAlphabet[d[i] + 1]]

\* C15 (generated slug shape): for a clock reading and a 16-bit bump, generate
\* returns the URL-safe base64 text of the six bytes reading || big-endian
\* bump: exactly 8 chars, none of them the padding char.
C15_GeneratedSlugShape ==
    last.op = "generate" =>
       /\ Len(last.data) = 6
       /\ SubSeq(last.data, 5, 6) = <<last.k \div 256, last.k % 256>>
       /\ res.val = UrlSafeBase64Of6(last.data)
       /\ Len(res.val) = 8
       /\ \A i \in 1..Len(res.val) : res.val[i] # PaddingChar

C15_Witness ==
    /\ last.op = "generate"
    /\ last.k = 65535
    /\ last.data[1] = 59
    /\ res.val[8] = UrlSixtyThirdSymbol
    /\ \E i \in 1..8 : res.val[i] = UrlSixtySecondSymbol

\* C24 (append-only history through the service): a stored history changes
\* only by a handle_redirect that succeeds for its slug, which adds exactly one
\* redirect event at the next index, so the history before is a prefix of the
\* history after; a history is never deleted; its first event is the Create of
\* its slug and no later event is a Create.
C24_AppendOnlyHistory ==
    /\ [][\A id \in DOMAIN evs :
            /\ id \in DOMAIN evs'
            /\ \/ evs'[id] = evs[id]
               \/ /\ last'.op = "redirect"
                  /\ last'.id = id
                  /\ res'.tag = "Ok"
                  /\ evs'[id] = Append(evs[id], StoredEvent(id, Len(evs[id]), StatEvent(id)))]_vars
    /\ [](\A id \in DOMAIN evs :
            /\ evs[id][1].event = CreateEvent(id, created[id].url)
            /\ \A i \in 2..Len(evs[id]) : evs[id][i].event[1] # "Create")

C24_Witness ==
    /\ last.op = "create_with_slug"
    /\ res.tag = "Err"
    /\ res.val = "SlugAlreadyInUse"
    /\ Len(evs[last.id]) = MaxRedirects + 1
    /\ evs[last.id][MaxRedirects + 1].index = MaxRedirects
    /\ \E id \in DOMAIN evs : id # last.id /\ Len(evs[id]) = 2

(***************************************************************************)
(* Claims about the generation loop (checked under SpecLoop).              *)
(***************************************************************************)
LoopPass == lpc = "probe" /\ lpc' = "probe"
LoopExit == lpc = "probe" /\ lpc' = "idle"
Exhausted(r) == r.tag = "Panic" /\ r.val = "unreachable: somehow bump reaches it's maximum"

\* C16 (generation loop termination): the loop starts with bump 0; a pass that
\* finds its candidate taken adds exactly 1 to bump; the loop is left with the
\* first candidate found absent or by the fatal abort; it is always left, after
\* no more probes than the bump has values; bump never goes down, so never
\* wraps to 0.
C16_LoopTerminates ==
    /\ [][(lpc = "idle" /\ lpc' = "probe") => bump' = 0]_vars
    /\ [][LoopPass => (gen[bump] \in DOMAIN evs /\ bump' = bump + 1 /\ evs' = evs)]_vars
    /\ [][lpc = "probe" => (bump' >= bump /\ bump' <= BumpMax)]_vars
    /\ [][LoopExit =>
            \/ /\ gen[bump] \notin DOMAIN evs
               /\ bump' = bump
               /\ IF gen[bump] = EmptySlug
                  THEN res'.tag = "Panic" /\ res'.val = "InvalidInitialEvent"
                  ELSE res'.tag = "Ok" /\ res'.val.slug = gen[bump]
            \/ /\ gen[bump] \in DOMAIN evs
               /\ bump' = bump + 1
               /\ Exhausted(res')]_vars
    /\ [](lpc = "probe" =>
            /\ bump + 1 <= BumpMax + 1
            /\ \A b \in 0..(bump - 1) : gen[b] \in DOMAIN evs)
    /\ (lpc = "probe") ~> (lpc = "idle")

C16_Witness ==
    /\ last.op = "create_generated"
    /\ res.tag = "Ok"
    /\ bump = BumpMax - 1
    /\ lpc = "idle"

\* C17 (exhaustion only after the full range): the loop aborts only when the
\* candidate of every bump value, 0 up to the largest, was generated and found
\* taken.
C17_AbortOnlyAfterFullRange ==
    [][(LoopExit /\ Exhausted(res')) =>
          \A b \in 0..BumpMax : gen[b] \in DOMAIN evs]_vars

====
